---- MODULE Spec2Model ----
(***************************************************************************)
(* The evaluation scheduler and the evolution engine of the NN3DWalkers    *)
(* example (examples/Evolution/NN3DWalkers.cpp).                           *)
(*                                                                         *)
(* Time is counted in units of 1/120 s, so that the per-step clamp of      *)
(* 1/60 s is 2 units and a step can be shorter than, equal to or longer    *)
(* than the clamp.  Single-precision literals and products are modelled    *)
(* with their IEEE-754 rounding (24-bit significand, round to nearest      *)
(* even): a float is a pair <<m, e>> that stands for m * 2^(-e).           *)
(***************************************************************************)
EXTENDS Integers, Sequences, FiniteSets, TLC

\* ---------------------------------------------------------------- bounds
\* Largest population size (POPULATION_SIZE is a build-time macro) of the
\* scheduler specification Spec.
MaxPopulation == 3
\* The population size added to those of Spec where steps are delivered for
\* ever: the smallest for which sow asks for more reaped walkers than reap
\* marked.
LivePopulation == 11
\* Largest population size of the sow specification SpecSow.
MaxSowPopulation == 12
MaxSelectPopulation == 50
MaxRankPopulation == 4
MaxWorldPopulation == 2
\* #define POPULATION_SIZE 50: the population size the source is built with.
DefaultPopulation == 50
\* Largest value of the "Parallel evaluations" slider in the model.
MaxParallel == 2
\* Largest time step the physics world hands to update(), in 1/120 s.
MaxDt == 3
\* Number of sensory-motor weights of a walker in the model
\* (BODYPART_COUNT*JOINT_COUNT in the program).
NumWeights == 1
\* Largest population size of the tick specification SpecTick.
MaxTickPopulation == 2
\* Population size and "Parallel evaluations" of the two-wave trace SpecTrace.
TracePopulation == 4
TraceParallel == 2
\* EVALUATION_DURATION (a build-time macro), in 1/120 s.
EVALUATION_DURATION == 6
\* 1/gWalkerLegTargetFrequency (the "Motor update frequency" slider), in
\* 1/120 s.
LegUpdatePeriod == 3
NUM_WALKER_LEGS == 1

\* ------------------------------------------------------ program constants
\* 1/60 s, the clamp of updateEvaluations, in 1/120 s.
minFPS == 2
\* The significand width of a float.
FloatBits == 24
\* The float literals, as significand and (negated) binary exponent:
\* 0.3f = 5033165 * 2^-24, 0.2f = 13421773 * 2^-26, 0.5f = 1 * 2^-1,
\* 0.8f = 13421773 * 2^-24.
REAP_QTY_m == 5033165
REAP_QTY_e == 24
SOW_CROSSOVER_QTY_m == 13421773
SOW_CROSSOVER_QTY_e == 26
SOW_ELITE_QTY_m == 13421773
SOW_ELITE_QTY_e == 26
SOW_MUTATION_QTY_m == 1
SOW_MUTATION_QTY_e == 1
SOW_ELITE_PARTNER_m == 13421773
SOW_ELITE_PARTNER_e == 24

REAP_QTY == <<REAP_QTY_m, REAP_QTY_e>>
SOW_CROSSOVER_QTY == <<SOW_CROSSOVER_QTY_m, SOW_CROSSOVER_QTY_e>>
SOW_ELITE_QTY == <<SOW_ELITE_QTY_m, SOW_ELITE_QTY_e>>
SOW_MUTATION_QTY == <<SOW_MUTATION_QTY_m, SOW_MUTATION_QTY_e>>
SOW_ELITE_PARTNER == <<SOW_ELITE_PARTNER_m, SOW_ELITE_PARTNER_e>>

\* ------------------------------------------------------- float arithmetic
Pow2(k) == IF k <= 0 THEN 1 ELSE 2 ^ k

\* The least s >= 0 with m < 2^(FloatBits + s), for m >= 0.
RECURSIVE ExcessBits(_)
ExcessBits(m) == IF m < Pow2(FloatBits) THEN 0 ELSE 1 + ExcessBits(m \div 2)

\* Round the non-negative exact value m * 2^(-e) to a float.
FloatRound(m, e) ==
    LET s    == ExcessBits(m)
        q    == m \div Pow2(s)
        r    == m % Pow2(s)
        half == Pow2(s - 1)
        up   == s > 0 /\ (r > half \/ (r = half /\ q % 2 = 1))
    IN  <<IF up THEN q + 1 ELSE q, e - s>>

\* Bring two floats to the exponent of the finer one.
FloatAlign(f, g) ==
    LET e == IF f[2] >= g[2] THEN f[2] ELSE g[2]
    IN  <<f[1] * Pow2(e - f[2]), g[1] * Pow2(e - g[2]), e>>

\* int * float, float + float, float - float (results >= 0 in the program).
IntTimesFloat(n, f) == FloatRound(n * f[1], f[2])
FloatAdd(f, g) == LET a == FloatAlign(f, g) IN FloatRound(a[1] + a[2], a[3])
FloatSub(f, g) == LET a == FloatAlign(f, g) IN FloatRound(a[1] - a[2], a[3])
IntToFloat(n) == <<n, 0>>

\* Conversion of a non-negative float to int (truncation), and the least
\* integer not below it.
FloatToInt(f) == IF f[2] >= 0 THEN f[1] \div Pow2(f[2]) ELSE f[1] * Pow2(-f[2])
FloatCeil(f) ==
    IF f[2] >= 0 THEN -((-f[1]) \div Pow2(f[2])) ELSE f[1] * Pow2(-f[2])

\* The comparisons of an int with a float that the loops make.
IntGeFloat(i, f) == i >= FloatCeil(f)
IntLtFloat(i, f) == i < FloatCeil(f)
IntGtFloat(i, f) == i > FloatToInt(f)

\* -------------------------------------------------------------- the state
VARIABLES
    POPULATION_SIZE,        \* the build's population size (never changes)
    gParallelEvaluations,   \* the "Parallel evaluations" slider
    m_walkersInPopulation,  \* slot -> walker (or NULL), slots 0..POPULATION_SIZE-1
    m_walkersInEvaluation,  \* the in-flight counter
    m_nextReapedIndex,      \* the cursor of getNextReaped
    crashed,                \* the process dereferenced a null walker and died
    sowPc,                  \* where sow() stands: <<phase, i>>
    lastOp,                 \* the last call of crossover/mutate/random fill
    sowLog,                 \* what the running sow() has done so far
    cycleRan,               \* rank+reap+sow ran in the last update()
    activations,            \* slot -> activations since the last rank+reap+sow
    atCycle,                \* what the last rank+reap+sow found when triggered
    m_bestWalkerFitness,    \* the best fitness recorded by rateEvaluations
    lastBest,               \* the best fitness rateEvaluations met, if cycleRan
    lastRanked,             \* slot -> index and weights as ranked, if cycleRan
    lastTick,               \* the last update() or contact callback and what it met
    controller,             \* one walker's controller: weights, sensors, output
    REBUILD_WALKER,         \* the build's REBUILD_WALKER (never changes)
    m_rebuildWorld          \* the world is to be rebuilt before the next step

vars == <<POPULATION_SIZE, gParallelEvaluations, m_walkersInPopulation,
          m_walkersInEvaluation, m_nextReapedIndex, crashed, sowPc, lastOp,
          sowLog, cycleRan, activations, atCycle, m_bestWalkerFitness,
          lastBest, lastRanked, lastTick, controller, REBUILD_WALKER,
          m_rebuildWorld>>

WeightIdx == 0 .. NumWeights - 1
\* Two sample values of ((double) rand() / RAND_MAX) * 2 - 1.
FreshWeights == {-1, 1}
\* rand()/RAND_MAX in int arithmetic: 0, or 1 when rand() = RAND_MAX.
RandRatio == {0, 1}

\* A null walker pointer.
NULL == [null |-> TRUE]
NoSlot == -1

Slots(N) == 0 .. N - 1

\* NNWalker::NNWalker: not in evaluation, time 0, not reaped, accumulator 0,
\* the index given, touch sensors cleared, random weights.  The touch sensors
\* of all body parts are modelled by one bit.  m_inWorld tells whether the
\* walker's bodies and constraints are in the dynamics world: the constructor
\* adds them as it builds them and ends with removeFromWorld().
NNWalker(index, weights) ==
    [m_inEvaluation         |-> FALSE,
     m_evaluationTime       |-> 0,
     m_reaped               |-> FALSE,
     m_index                |-> index,
     m_legUpdateAccumulator |-> 0,
     m_touchSensors         |-> FALSE,
     m_inWorld              |-> FALSE,
     m_sensoryMotorWeights  |-> weights]

\* NNWalker::addToWorld, NNWalker::removeFromWorld
addToWorld(pop, i) == [pop EXCEPT ![i].m_inWorld = TRUE]
removeFromWorld(pop, i) == [pop EXCEPT ![i].m_inWorld = FALSE]

\* NNWalker::resetAt: out of the world, back at the start position, the
\* accumulator 0 and the touch sensors clear.
resetAt(pop, i) ==
    [removeFromWorld(pop, i) EXCEPT ![i].m_legUpdateAccumulator = 0,
                                    ![i].m_touchSensors = FALSE]

\* recreateWorld() with every walker added to the new world.
recreateWorldAddAll(pop, N) == [i \in Slots(N) |-> [pop[i] EXCEPT !.m_inWorld = TRUE]]

\* recreateWorld(): every walker removed from the old world, and the walkers
\* in evaluation added to the new one.
recreateWorld(pop, N) ==
    [i \in Slots(N) |-> [pop[i] EXCEPT !.m_inWorld = pop[i].m_inEvaluation]]

\* resetWalkerAt with the store of the new walker inside the if-block.
resetWalkerAtUnstored(pop, i, randomWeights) ==
    IF pop[i] # NULL
    THEN [pop EXCEPT ![i] = NNWalker(i, pop[i].m_sensoryMotorWeights)]
    ELSE pop

\* resetWalkerAt building the new walker with the index of the old one.
resetWalkerAtOldIndex(pop, i, randomWeights) ==
    [pop EXCEPT ![i] =
        IF pop[i] # NULL
        THEN NNWalker(pop[i].m_index, pop[i].m_sensoryMotorWeights)
        ELSE NNWalker(i, randomWeights)]

\* resetWalkerAt without the copy of the old walker's weights.
resetWalkerAtNoCopy(pop, i, randomWeights) ==
    [pop EXCEPT ![i] = NNWalker(i, [k \in WeightIdx |-> 0])]

\* resetWalkerAt that keeps the walker of the slot and only resets its
\* evaluation time.
resetWalkerAtInPlace(pop, i, randomWeights) ==
    [pop EXCEPT ![i] =
        IF pop[i] # NULL
        THEN [pop[i] EXCEPT !.m_evaluationTime = 0, !.m_index = i]
        ELSE NNWalker(i, randomWeights)]

\* resetWalkerAt(i): a new walker for slot i; it takes over the weights of the
\* walker that was in the slot, if there was one, which is deleted.
resetWalkerAt(pop, i, randomWeights) ==
    [pop EXCEPT ![i] =
        IF pop[i] # NULL
        THEN NNWalker(i, pop[i].m_sensoryMotorWeights)
        ELSE NNWalker(i, randomWeights)]

\* initPhysics: resize(POPULATION_SIZE, NULL), then resetWalkerAt for each slot;
\* w gives the weights each constructor draws.
RECURSIVE initWalkers(_, _, _, _)
initWalkers(pop, i, N, w) ==
    IF i >= N THEN pop ELSE initWalkers(resetWalkerAt(pop, i, w[i]), i + 1, N, w)

initPhysics(N, w) == initWalkers([i \in Slots(N) |-> NULL], 0, N, w)

\* ------------------------------------------------------------------ reap
\* The bound of reap() taken from POPULATION_SIZE instead of POPULATION_SIZE-1.
ReapBoundOfSize(N) == IntTimesFloat(N, FloatSub(IntToFloat(1), REAP_QTY))

\* (POPULATION_SIZE-1)*(1-REAP_QTY)
ReapBound(N) == IntTimesFloat(N - 1, FloatSub(IntToFloat(1), REAP_QTY))

\* reap(): for(i = N-1; i >= (N-1)*(1-REAP_QTY); i--) setReaped(true)
reap(pop, N) ==
    [i \in Slots(N) |->
        IF IntGeFloat(i, ReapBound(N)) THEN [pop[i] EXCEPT !.m_reaped = TRUE]
        ELSE pop[i]]

\* ------------------------------------------------------- parent selection
\* getRandomElite(): slot ((N-1)*SOW_ELITE_QTY) * (rand()/RAND_MAX)
getRandomElite(N, r) ==
    FloatToInt(IntTimesFloat(r, IntTimesFloat(N - 1, SOW_ELITE_QTY)))

\* getRandomNonElite(): slot (N-1)*SOW_ELITE_QTY
\*                            + (N-1)*(1.0f-SOW_ELITE_QTY)*(rand()/RAND_MAX)
getRandomNonElite(N, r) ==
    FloatToInt(FloatAdd(
        IntTimesFloat(N - 1, SOW_ELITE_QTY),
        IntTimesFloat(r, IntTimesFloat(N - 1,
                                       FloatSub(IntToFloat(1), SOW_ELITE_QTY)))))

\* (SOW_ELITE_PARTNER < rand()/RAND_MAX) ? getRandomElite() : getRandomNonElite()
getFather(N, rsel, r) ==
    IF IntGtFloat(rsel, SOW_ELITE_PARTNER) THEN getRandomElite(N, r)
    ELSE getRandomNonElite(N, r)

\* getNextReaped(): the cursor after the call and the slot returned (NoSlot
\* for the null pointer).
getNextReaped(pop, N, idx) ==
    LET idx2 == IF IntGeFloat((N - 1) - idx, ReapBound(N)) THEN idx + 1 ELSE idx
        s    == (N - 1) - idx2 + 1
    IN  [idx |-> idx2, slot |-> IF pop[s].m_reaped THEN s ELSE NoSlot]

\* ------------------------------------------------------------------- sow
\* The loop conditions of sow().
\* The crossover loop stopped at the integer part of the product.
CrossoverCondTruncated(N, i) ==
    i < FloatToInt(IntTimesFloat(N, SOW_CROSSOVER_QTY))

\* i < POPULATION_SIZE * SOW_CROSSOVER_QTY
CrossoverCond(N, i) == IntLtFloat(i, IntTimesFloat(N, SOW_CROSSOVER_QTY))
\* The mutation loop started at slot 0.
MutantFirstZero(N) == 0

\* int i = POPULATION_SIZE*SOW_ELITE_QTY
MutantFirst(N) == FloatToInt(IntTimesFloat(N, SOW_ELITE_QTY))
\* i < POPULATION_SIZE*(SOW_ELITE_QTY+SOW_MUTATION_QTY)
MutantCond(N, i) ==
    IntLtFloat(i, IntTimesFloat(N, FloatAdd(SOW_ELITE_QTY, SOW_MUTATION_QTY)))
\* i < (POPULATION_SIZE-1) * (REAP_QTY-SOW_CROSSOVER_QTY)
RandomCond(N, i) ==
    IntLtFloat(i, IntTimesFloat(N - 1, FloatSub(REAP_QTY, SOW_CROSSOVER_QTY)))

\* The sign of the rate sow() hands to mutate() for slot i,
\* MUTATION_RATE / (N*SOW_MUTATION_QTY) * (i - N*SOW_ELITE_QTY): the first
\* factor is positive, so it is the sign of i - N*SOW_ELITE_QTY.
MutationRateSign(N, i) ==
    LET f == IntTimesFloat(N, SOW_ELITE_QTY)
    IN  IF IntGtFloat(i, f) THEN 1 ELSE IF IntGeFloat(i, f) THEN 0 ELSE -1

\* The outcomes of the comparison random >= mutationRate for a draw random in
\* [0,1]: TRUE always can happen (the rate is below 1), FALSE only under a
\* positive rate.
DrawGeRate(sign) == IF sign > 0 THEN {TRUE, FALSE} ELSE {TRUE}

\* crossover(mother, father, child), weight by weight from position k on;
\* coin[k] is the outcome of random >= 0.5f.  The three walkers are slots of
\* the same population, so a parent that is the child is read as written.
RECURSIVE crossoverFrom(_, _, _, _, _, _)
\* crossover that blends the parents' weights instead of choosing one.
crossoverBlend(pop, mother, father, child, coin, k) ==
    [pop EXCEPT ![child].m_sensoryMotorWeights =
        [j \in WeightIdx |->
            IF j < k THEN @[j]
            ELSE pop[mother].m_sensoryMotorWeights[j]
                    + pop[father].m_sensoryMotorWeights[j]]]

crossoverFrom(pop, mother, father, child, coin, k) ==
    IF k >= NumWeights THEN pop
    ELSE crossoverFrom(
            [pop EXCEPT ![child].m_sensoryMotorWeights[k] =
                IF coin[k] THEN pop[mother].m_sensoryMotorWeights[k]
                ELSE pop[father].m_sensoryMotorWeights[k]],
            mother, father, child, coin, k + 1)

crossover(pop, mother, father, child, coin) ==
    crossoverFrom(pop, mother, father, child, coin, 0)

\* mutate(mutant, mutationRate): ge[k] is the outcome of random >= mutationRate
\* for weight k, fresh[k] the value drawn for it.
mutate(pop, mutant, ge, fresh) ==
    [pop EXCEPT ![mutant].m_sensoryMotorWeights =
        [k \in WeightIdx |-> IF ge[k] THEN fresh[k] ELSE @[k]]]

\* randomizeSensoryMotorWeights()
randomizeSensoryMotorWeights(pop, i, fresh) ==
    [pop EXCEPT ![i].m_sensoryMotorWeights = fresh]

\* The state sow() works on.
SowState(pop, idx, dead) == [pop |-> pop, idx |-> idx, crashed |-> dead]

\* The parents the crossover loop can draw: <<mother, father>>.
Parents(N) ==
    {<<getRandomElite(N, rm), getFather(N, rsel, rf)>> :
        rm \in RandRatio, rsel \in RandRatio, rf \in RandRatio}

\* One iteration of the crossover loop with the parents drawn: a null
\* offspring is written through.
sowCrossover(st, N, parents, coin) ==
    LET nr == getNextReaped(st.pop, N, st.idx)
    IN  IF nr.slot = NoSlot THEN SowState(st.pop, nr.idx, TRUE)
        ELSE SowState(crossover(st.pop, parents[1], parents[2], nr.slot, coin),
                      nr.idx, FALSE)

\* One iteration of the mutation loop.
sowMutate(st, N, i, ge, fresh) ==
    SowState(mutate(st.pop, i, ge, fresh), st.idx, FALSE)

\* One iteration of the random-fill loop: a null walker is written through.
sowRandom(st, N, fresh) ==
    LET nr == getNextReaped(st.pop, N, st.idx)
    IN  IF nr.slot = NoSlot THEN SowState(st.pop, nr.idx, TRUE)
        ELSE SowState(
                randomizeSensoryMotorWeights(
                    [st.pop EXCEPT ![nr.slot].m_reaped = FALSE], nr.slot, fresh),
                nr.idx, FALSE)

\* Draws of the weight-wise loops.
CoinDraws == [WeightIdx -> BOOLEAN]
FreshDraws == [WeightIdx -> FreshWeights]
RateDraws(sign) == [WeightIdx -> DrawGeRate(sign)]

\* The three loops of sow() as the set of states they can end in; a crashed
\* state stays as it is.
RECURSIVE sowCrossoverLoop(_, _, _)
sowCrossoverLoop(S, N, i) ==
    IF ~CrossoverCond(N, i) THEN S
    ELSE sowCrossoverLoop(
            {st \in S : st.crashed} \cup
            {sowCrossover(st, N, parents, coin) :
                st \in {x \in S : ~x.crashed}, parents \in Parents(N),
                coin \in CoinDraws},
            N, i + 1)

RECURSIVE sowMutateLoop(_, _, _)
sowMutateLoop(S, N, i) ==
    IF ~MutantCond(N, i) THEN S
    ELSE sowMutateLoop(
            {st \in S : st.crashed} \cup
            {sowMutate(st, N, i, ge, fresh) :
                st \in {x \in S : ~x.crashed},
                ge \in RateDraws(MutationRateSign(N, i)), fresh \in FreshDraws},
            N, i + 1)

RECURSIVE sowRandomLoop(_, _, _)
sowRandomLoop(S, N, i) ==
    IF ~RandomCond(N, i) THEN S
    ELSE sowRandomLoop(
            {st \in S : st.crashed} \cup
            {sowRandom(st, N, fresh) :
                st \in {x \in S : ~x.crashed}, fresh \in FreshDraws},
            N, i + 1)

\* sow(): crossover children, then mutants, then random walkers.
sow(pop, N, idx) ==
    sowRandomLoop(
        sowMutateLoop(
            sowCrossoverLoop({SowState(pop, idx, FALSE)}, N, 0),
            N, MutantFirst(N)),
        N, 0)

\* ------------------------------------------------------------------ rank
\* Sample values of getFitness() (a squared distance read from the bodies).
FitnessVals == {0, 1}

\* All the orders of the slots in S: sequences that list each slot once.
RECURSIVE OrdersOf(_)
OrdersOf(S) ==
    IF S = {} THEN {<<>>}
    ELSE UNION {{<<x>> \o p : p \in OrdersOf(S \ {x})} : x \in S}

\* The orders quickSort(fitnessComparator) can leave for some fitness values
\* of the walkers: perm[i+1] is the slot the walker of rank i came from, and
\* no walker precedes a fitter one.
RankOrdersFor(N) ==
    UNION {{p \in OrdersOf(Slots(N)) :
                \A i, j \in 1 .. N : i < j => fit[p[i]] >= fit[p[j]]} :
            fit \in [Slots(N) -> FitnessVals]}

\* The orders quickSort(fitnessComparator) can leave for the fitness values
\* fit: the comparator tells a fitter walker from a less fit one and nothing
\* else.
RankOrdersOf(N, fit) ==
    {p \in OrdersOf(Slots(N)) :
        \A i, j \in 1 .. N : i < j => ~(fit[p[j]] > fit[p[i]])}

\* The same, tabulated for the population sizes of Spec.
RECURSIVE RankOrdersUpTo(_)
RankOrdersUpTo(n) ==
    IF n = 0 THEN <<>> ELSE Append(RankOrdersUpTo(n - 1), RankOrdersFor(n))

RankOrders ==
    RankOrdersUpTo(IF MaxPopulation >= TracePopulation THEN MaxPopulation
                   ELSE TracePopulation)

\* Beyond the table, the orders quickSort leaves for two samples of the
\* fitness values, all different: already ranked, and ranked in reverse.
SampleRankOrders(N) ==
    {[k \in 1 .. N |-> k - 1], [k \in 1 .. N |-> N - k]}

RankOrdersAt(N) ==
    IF N <= Len(RankOrders) THEN RankOrders[N] ELSE SampleRankOrders(N)

\* rateEvaluations without the reset of the evaluation times.
rateEvaluationsNoReset(pop, N, perm) == [i \in Slots(N) |-> pop[perm[i + 1]]]

\* rateEvaluations(): sort, then reset every walker's evaluation time.
rateEvaluations(pop, N, perm) ==
    [i \in Slots(N) |-> [pop[perm[i + 1]] EXCEPT !.m_evaluationTime = 0]]

\* What rateEvaluations, reap and sow can leave of a population: the
\* population as ranked, and what sow made of it.
rankReapSow(pop, N) ==
    LET ranked == {rateEvaluations(pop, N, perm) : perm \in RankOrdersAt(N)}
    IN  UNION {{[ranked |-> r, pop |-> o.pop, idx |-> o.idx,
                 crashed |-> o.crashed] : o \in sow(reap(r, N), N, 0)} :
               r \in ranked}

\* ------------------------------------------------------------- scheduler
Min(a, b) == IF a <= b THEN a ELSE b

\* updateEvaluations() without the clamp of the step.
clampDeltaNone(timeSinceLastTick) == timeSinceLastTick

\* The clamped step of updateEvaluations().
clampDelta(timeSinceLastTick) ==
    IF timeSinceLastTick > minFPS THEN minFPS ELSE timeSinceLastTick

\* updateEvaluations() without the test of isInEvaluation().
updateEvaluationsOfAll(pop, N, timeSinceLastTick) ==
    [r \in Slots(N) |->
        [pop[r] EXCEPT
            !.m_evaluationTime = @ + clampDelta(timeSinceLastTick)]]

\* updateEvaluations(): for the walkers in evaluation, evaluation time and
\* leg-update accumulator advance by the clamped step, the accumulator is set
\* to 0 when it has reached the update period (the motor targets are then
\* recomputed), and the touch sensors are cleared.
updateEvaluations(pop, N, timeSinceLastTick) ==
    LET delta == clampDelta(timeSinceLastTick)
    IN  [r \in Slots(N) |->
            IF pop[r] # NULL /\ pop[r].m_inEvaluation
            THEN [pop[r] EXCEPT
                    !.m_evaluationTime = @ + delta,
                    !.m_legUpdateAccumulator =
                        IF @ + delta >= LegUpdatePeriod THEN 0 ELSE @ + delta,
                    !.m_touchSensors = FALSE]
            ELSE pop[r]]

\* NNWalker::setTouchSensor
setTouchSensor(pop, i) == [pop EXCEPT ![i].m_touchSensors = TRUE]

\* legContactProcessedCallback(cp, body0, body1): id1 and id2 are the slots of
\* the walkers the two bodies belong to, GROUND_ID for a body of the ground.
GROUND_ID == NoSlot
legContactProcessedCallback(pop, id1, id2) ==
    IF id1 # GROUND_ID \/ id2 # GROUND_ID
    THEN LET pop1 == IF id1 # GROUND_ID THEN setTouchSensor(pop, id1) ELSE pop
         IN  IF id2 # GROUND_ID THEN setTouchSensor(pop1, id2) ELSE pop1
    ELSE pop

\* The branch of rateEvaluations() that keeps or replaces the recorded best
\* fitness; best is the fitness of the walker ranked first.
notDeterministic(N, best, recorded) == ReapBound(N)[1] # 0 /\ best < recorded
\* rateEvaluations recording the round's best whatever it is.
rateBestAlways(N, best, recorded) == best

rateBest(N, best, recorded) ==
    IF notDeterministic(N, best, recorded) THEN recorded ELSE best

\* The tear-down condition with > for >=.
tearDownCondLate(walker) ==
    walker.m_inEvaluation /\ walker.m_evaluationTime > EVALUATION_DURATION

\* The two conditions of the scheduling loop and the one after it.
tearDownCond(walker) ==
    walker.m_inEvaluation /\ walker.m_evaluationTime >= EVALUATION_DURATION

\* The set-up condition without the test of the in-flight counter.
setupCondUnbounded(walker, inEvaluation, parallel) ==
    ~walker.m_inEvaluation /\ walker.m_evaluationTime = 0

setupCond(walker, inEvaluation, parallel) ==
    /\ inEvaluation < parallel
    /\ ~walker.m_inEvaluation
    /\ walker.m_evaluationTime = 0

\* The round-over test off by one.
roundOverOffByOne(inEvaluation) == inEvaluation <= 1

roundOver(inEvaluation) == inEvaluation = 0

\* The order in which the scheduling loop visits the slots.
scheduleOrderDescending(N) == [k \in 1 .. N |-> N - k]

scheduleOrder(N) == [k \in 1 .. N |-> k - 1]

\* The state of the scheduling loop: population, in-flight counter and the
\* activations counted since the last rank+reap+sow.
SchedState(pop, n, acts) == [pop |-> pop, inEvaluation |-> n, acts |-> acts]

\* The body of the loop with a tear-down that leaves the in-flight counter as
\* it was.
scheduleSlotNoDecrement(st, i, parallel) ==
    LET down == tearDownCond(st.pop[i])
        pop1 == IF down
                THEN removeFromWorld(
                        [st.pop EXCEPT ![i].m_inEvaluation = FALSE], i)
                ELSE st.pop
        n1   == st.inEvaluation
    IN  IF setupCond(pop1[i], n1, parallel)
        THEN SchedState(
                addToWorld(
                    [(IF REBUILD_WALKER
                      THEN resetWalkerAt(pop1, i, pop1[i].m_sensoryMotorWeights)
                      ELSE resetAt(pop1, i))
                        EXCEPT ![i].m_inEvaluation = TRUE], i),
                n1 + 1,
                [st.acts EXCEPT ![i] = Min(@ + 1, 2)])
        ELSE SchedState(pop1, n1, st.acts)

\* The body of the loop for slot i: tear down, then set up.
scheduleSlot(st, i, parallel) ==
    LET down == tearDownCond(st.pop[i])
        pop1 == IF down
                THEN removeFromWorld(
                        [st.pop EXCEPT ![i].m_inEvaluation = FALSE], i)
                ELSE st.pop
        n1   == IF down THEN st.inEvaluation - 1 ELSE st.inEvaluation
    IN  IF setupCond(pop1[i], n1, parallel)
        THEN \* With REBUILD_WALKER the constructor's random weights are
             \* overwritten by the copy of the old walker's, so the draw does
             \* not matter; without it the walker is reset in place.
             SchedState(
                addToWorld(
                    [(IF REBUILD_WALKER
                      THEN resetWalkerAt(pop1, i, pop1[i].m_sensoryMotorWeights)
                      ELSE resetAt(pop1, i))
                        EXCEPT ![i].m_inEvaluation = TRUE], i),
                n1 + 1,
                [st.acts EXCEPT ![i] = Min(@ + 1, 2)])
        ELSE SchedState(pop1, n1, st.acts)

RECURSIVE scheduleLoop(_, _, _, _)
scheduleLoop(st, order, k, parallel) ==
    IF k > Len(order) THEN st
    ELSE scheduleLoop(scheduleSlot(st, order[k], parallel), order, k + 1, parallel)

\* ------------------------------------------------------ history variables
NoOp ==
    [op |-> "none", slot |-> NoSlot, mother |-> NoSlot, father |-> NoSlot,
     rateSign |-> 0, draw |-> [k \in WeightIdx |-> FALSE],
     motherW |-> [k \in WeightIdx |-> 0], fatherW |-> [k \in WeightIdx |-> 0],
     before |-> [k \in WeightIdx |-> 0]]

NoLog == [ranked |-> <<>>, reaped |-> {}, crossed |-> <<>>, mutated |-> {},
          randomized |-> <<>>]

NoCycle == [ran |-> FALSE, activations |-> <<>>, evaluationTime |-> <<>>,
            inFlightBefore |-> 0, registered |-> 0]

NoTick == [op |-> "none", dt |-> 0, touched |-> <<>>]

NoController == [op |-> "none", weights |-> <<>>, sensors |-> <<>>,
                 seen |-> <<>>, raw |-> <<>>]

Weights(pop) == [i \in DOMAIN pop |-> pop[i].m_sensoryMotorWeights]
ReapedSlots(pop) == {i \in DOMAIN pop : pop[i].m_reaped}

\* ------------------------------------------------------------ Spec: steps
\* The state after the constructor and initPhysics().
InitBuild(sizes, parallel, rebuild) ==
    /\ POPULATION_SIZE \in sizes
    /\ REBUILD_WALKER \in rebuild
    /\ m_rebuildWorld = FALSE
    /\ gParallelEvaluations \in parallel
    /\ \E w \in [Slots(POPULATION_SIZE) -> FreshDraws] :
            m_walkersInPopulation = initPhysics(POPULATION_SIZE, w)
    /\ m_walkersInEvaluation = 0
    /\ m_nextReapedIndex = 0
    /\ crashed = FALSE
    /\ sowPc = <<"idle", 0>>
    /\ lastOp = NoOp
    /\ sowLog = NoLog
    /\ cycleRan = FALSE
    /\ activations = [i \in Slots(POPULATION_SIZE) |-> 0]
    /\ atCycle = NoCycle
    /\ m_bestWalkerFitness = 0
    /\ lastBest = 0
    /\ lastRanked = <<>>
    /\ lastTick = NoTick

\* The build as the source has it: REBUILD_WALKER true.
InitWorld(sizes, parallel) == InitBuild(sizes, parallel, {TRUE})

InitWith(sizes, parallel) ==
    /\ InitWorld(sizes, parallel)
    /\ controller = NoController

Init == InitWith(1 .. MaxPopulation, 1 .. MaxParallel)

\* update(timeSinceLastTick), the pre-tick callback of one simulation step:
\* updateEvaluations, then scheduleEvaluations with, when no walker is left in
\* evaluation, rateEvaluations, reap and sow.
Update(dt) ==
    /\ ~crashed
    /\ sowPc[1] = "idle"
    /\ LET N    == POPULATION_SIZE
           pop1 == updateEvaluations(m_walkersInPopulation, N, dt)
           st   == scheduleLoop(
                       SchedState(pop1, m_walkersInEvaluation, activations),
                       scheduleOrder(N), 1, gParallelEvaluations)
       IN  /\ m_walkersInEvaluation' = st.inEvaluation
           /\ IF roundOver(st.inEvaluation)
              THEN \E out \in rankReapSow(st.pop, N), best \in FitnessVals :
                      /\ m_walkersInPopulation' = out.pop
                      /\ m_bestWalkerFitness' =
                            rateBest(N, best, m_bestWalkerFitness)
                      /\ m_nextReapedIndex' = out.idx
                      /\ crashed' = out.crashed
                      /\ cycleRan' = TRUE
                      /\ activations' = [i \in Slots(N) |-> 0]
                      /\ atCycle' =
                            [ran |-> TRUE, activations |-> st.acts,
                             evaluationTime |->
                                [i \in Slots(N) |-> st.pop[i].m_evaluationTime],
                             inFlightBefore |-> m_walkersInEvaluation,
                             registered |->
                                Cardinality({i \in Slots(N) :
                                                \/ st.pop[i].m_inWorld
                                                \/ st.pop[i].m_inEvaluation})]
                      /\ m_rebuildWorld' =
                            IF ~REBUILD_WALKER THEN TRUE ELSE m_rebuildWorld
                      /\ lastBest' = best
                      /\ lastRanked' =
                            [i \in Slots(N) |->
                                [index   |-> out.ranked[i].m_index,
                                 weights |->
                                    out.ranked[i].m_sensoryMotorWeights]]
              ELSE /\ m_walkersInPopulation' = st.pop
                   /\ cycleRan' = FALSE
                   /\ activations' = st.acts
                   /\ lastBest' = 0
                   /\ lastRanked' = <<>>
                   /\ UNCHANGED <<m_nextReapedIndex, crashed, atCycle,
                                  m_bestWalkerFitness, m_rebuildWorld>>
    /\ UNCHANGED <<POPULATION_SIZE, gParallelEvaluations, sowPc, lastOp, sowLog,
                   controller, REBUILD_WALKER>>

Next == \E dt \in 0 .. MaxDt : Update(dt) /\ UNCHANGED lastTick

Spec == Init /\ [][Next]_vars

\* ------------------------------------- SpecTick: steps and contact events
\* update() and the contact callback of the physics world, with the step and
\* the touch sensors each call met recorded in lastTick.
InitTick == InitWith(1 .. MaxTickPopulation, 1 .. MaxParallel)

TickUpdate ==
    \E dt \in 0 .. MaxDt :
        /\ Update(dt)
        /\ lastTick' = [op |-> "update", dt |-> dt, touched |-> <<>>]

\* A contact the physics world reports between two bodies, each a body of a
\* walker of the population or of the ground.
ContactProcessed ==
    /\ ~crashed
    /\ \E id1, id2 \in Slots(POPULATION_SIZE) \cup {GROUND_ID} :
          /\ m_walkersInPopulation' =
                legContactProcessedCallback(m_walkersInPopulation, id1, id2)
          /\ lastTick' =
                [op |-> "contact", dt |-> 0,
                 touched |-> [i \in Slots(POPULATION_SIZE) |->
                                m_walkersInPopulation[i].m_touchSensors]]
    /\ UNCHANGED <<POPULATION_SIZE, gParallelEvaluations, m_walkersInEvaluation,
                   m_nextReapedIndex, crashed, sowPc, lastOp, sowLog, cycleRan,
                   activations, atCycle, m_bestWalkerFitness, lastBest,
                   lastRanked, controller, REBUILD_WALKER, m_rebuildWorld>>

NextTick == TickUpdate \/ ContactProcessed

SpecTick == InitTick /\ [][NextTick]_vars

\* --------------------------------- SpecMalformed: no parallel evaluations
\* A build whose gParallelEvaluations is initialised to 0 or less (the slider
\* that could change it starts at 1 and is not touched).
InitMalformed == InitWith(1 .. MaxPopulation, (-1) .. 0)

NextMalformed == \E dt \in 0 .. MaxDt : Update(dt) /\ UNCHANGED lastTick

SpecMalformed == InitMalformed /\ [][NextMalformed]_vars

\* ------------------------------------------------ SpecTrace: a fixed trace
\* TracePopulation walkers, TraceParallel at a time, and every step of the
\* physics world as long as half the evaluation duration (which is more than
\* the clamp of updateEvaluations).
TraceDt == EVALUATION_DURATION \div 2

InitTrace == InitWith({TracePopulation}, {TraceParallel})

NextTrace == Update(TraceDt) /\ UNCHANGED lastTick

SpecTrace == InitTrace /\ [][NextTrace]_vars

\* --------------------------------------------------- SpecSow: reap and sow
\* reap() and sow() call by call, for every population size up to
\* MaxSowPopulation, from the state rateEvaluations() leaves: no walker in
\* evaluation, every evaluation time 0, no walker marked, the cursor 0.  The
\* weight at position k of the walker ranked i is named by the code
\* 2 + i*NumWeights + k, which differs from every other one and from the
\* fresh draws.
RankedWeights(i) == [k \in WeightIdx |-> 2 + i * NumWeights + k]

InitSow ==
    /\ POPULATION_SIZE \in 1 .. MaxSowPopulation
    /\ gParallelEvaluations = 1
    /\ m_walkersInPopulation =
            [i \in Slots(POPULATION_SIZE) |-> NNWalker(i, RankedWeights(i))]
    /\ m_walkersInEvaluation = 0
    /\ m_nextReapedIndex = 0
    /\ crashed = FALSE
    /\ sowPc = <<"reap", 0>>
    /\ lastOp = NoOp
    /\ sowLog = NoLog
    /\ cycleRan = TRUE
    /\ activations = [i \in Slots(POPULATION_SIZE) |-> 0]
    /\ atCycle = NoCycle
    /\ m_bestWalkerFitness = 0
    /\ lastBest = 0
    /\ lastRanked = <<>>
    /\ lastTick = NoTick
    /\ controller = NoController
    /\ REBUILD_WALKER = TRUE
    /\ m_rebuildWorld = FALSE

\* Where sow() goes on after each of its loops.
AfterMutants(N) == IF RandomCond(N, 0) THEN <<"random", 0>> ELSE <<"done", 0>>
AfterCrossovers(N) ==
    IF MutantCond(N, MutantFirst(N)) THEN <<"mutate", MutantFirst(N)>>
    ELSE AfterMutants(N)
AfterReap(N) ==
    IF CrossoverCond(N, 0) THEN <<"crossover", 0>> ELSE AfterCrossovers(N)

SowFrame == UNCHANGED <<POPULATION_SIZE, gParallelEvaluations,
                        m_walkersInEvaluation, cycleRan, activations, atCycle,
                        m_bestWalkerFitness, lastBest, lastRanked,
                        lastTick, controller, REBUILD_WALKER,
                        m_rebuildWorld>>

\* reap()
SowReap ==
    /\ sowPc[1] = "reap"
    /\ m_walkersInPopulation' = reap(m_walkersInPopulation, POPULATION_SIZE)
    /\ sowLog' = [NoLog EXCEPT !.ranked = Weights(m_walkersInPopulation),
                               !.reaped = ReapedSlots(m_walkersInPopulation')]
    /\ sowPc' = AfterReap(POPULATION_SIZE)
    /\ lastOp' = [NoOp EXCEPT !.op = "reap"]
    /\ UNCHANGED <<m_nextReapedIndex, crashed>>
    /\ SowFrame

\* One iteration of the crossover loop of sow().
SowCrossover ==
    /\ sowPc[1] = "crossover"
    /\ ~crashed
    /\ \E rm \in RandRatio, rsel \in RandRatio, rf \in RandRatio,
          coin \in CoinDraws :
        LET N      == POPULATION_SIZE
            pop    == m_walkersInPopulation
            mother == getRandomElite(N, rm)
            father == getFather(N, rsel, rf)
            child  == getNextReaped(pop, N, m_nextReapedIndex).slot
            st     == sowCrossover(SowState(pop, m_nextReapedIndex, FALSE),
                                   N, <<mother, father>>, coin)
        IN  /\ m_walkersInPopulation' = st.pop
            /\ m_nextReapedIndex' = st.idx
            /\ crashed' = st.crashed
            /\ lastOp' =
                [NoOp EXCEPT
                    !.op = "crossover", !.slot = child, !.mother = mother,
                    !.father = father, !.draw = coin,
                    !.motherW = pop[mother].m_sensoryMotorWeights,
                    !.fatherW = pop[father].m_sensoryMotorWeights,
                    !.before = IF child = NoSlot THEN NoOp.before
                               ELSE pop[child].m_sensoryMotorWeights]
            /\ sowLog' = [sowLog EXCEPT !.crossed = Append(@, child)]
            /\ sowPc' = IF CrossoverCond(N, sowPc[2] + 1)
                        THEN <<"crossover", sowPc[2] + 1>>
                        ELSE AfterCrossovers(N)
    /\ SowFrame

\* One iteration of the mutation loop of sow().
SowMutate ==
    /\ sowPc[1] = "mutate"
    /\ ~crashed
    /\ LET N    == POPULATION_SIZE
           pop  == m_walkersInPopulation
           i    == sowPc[2]
           sign == MutationRateSign(N, i)
       IN  \E ge \in RateDraws(sign), fresh \in FreshDraws :
            LET st == sowMutate(SowState(pop, m_nextReapedIndex, FALSE),
                                N, i, ge, fresh)
            IN  /\ m_walkersInPopulation' = st.pop
                /\ lastOp' =
                    [NoOp EXCEPT
                        !.op = "mutate", !.slot = i, !.rateSign = sign,
                        !.draw = ge,
                        !.before = pop[i].m_sensoryMotorWeights]
                /\ sowLog' = [sowLog EXCEPT !.mutated = @ \cup {i}]
                /\ sowPc' = IF MutantCond(N, i + 1) THEN <<"mutate", i + 1>>
                            ELSE AfterMutants(N)
    /\ UNCHANGED <<m_nextReapedIndex, crashed>>
    /\ SowFrame

\* One iteration of the random-fill loop of sow().
SowRandom ==
    /\ sowPc[1] = "random"
    /\ ~crashed
    /\ \E fresh \in FreshDraws :
        LET N    == POPULATION_SIZE
            pop  == m_walkersInPopulation
            slot == getNextReaped(pop, N, m_nextReapedIndex).slot
            st   == sowRandom(SowState(pop, m_nextReapedIndex, FALSE), N, fresh)
        IN  /\ m_walkersInPopulation' = st.pop
            /\ m_nextReapedIndex' = st.idx
            /\ crashed' = st.crashed
            /\ lastOp' =
                [NoOp EXCEPT
                    !.op = "random", !.slot = slot,
                    !.before = IF slot = NoSlot THEN NoOp.before
                               ELSE pop[slot].m_sensoryMotorWeights]
            /\ sowLog' = [sowLog EXCEPT !.randomized = Append(@, slot)]
            /\ sowPc' = IF RandomCond(N, sowPc[2] + 1)
                        THEN <<"random", sowPc[2] + 1>>
                        ELSE <<"done", 0>>
    /\ SowFrame

NextSow == SowReap \/ SowCrossover \/ SowMutate \/ SowRandom

SpecSow == InitSow /\ [][NextSow]_vars

\* ------------------------------------------------- the parent draws alone
\* The two parent draws of an iteration of the crossover loop of sow(), for
\* the population sizes up to the one the source is built with: the
\* population is ranked and reaped, and each draw is recorded in lastOp.
InitSelect ==
    /\ POPULATION_SIZE \in 1 .. MaxSelectPopulation
    /\ gParallelEvaluations = 1
    /\ m_walkersInPopulation =
            reap([i \in Slots(POPULATION_SIZE) |-> NNWalker(i, RankedWeights(i))],
                 POPULATION_SIZE)
    /\ m_walkersInEvaluation = 0
    /\ m_nextReapedIndex = 0
    /\ crashed = FALSE
    /\ sowPc = <<"crossover", 0>>
    /\ lastOp = NoOp
    /\ sowLog = NoLog
    /\ cycleRan = TRUE
    /\ activations = [i \in Slots(POPULATION_SIZE) |-> 0]
    /\ atCycle = NoCycle
    /\ m_bestWalkerFitness = 0
    /\ lastBest = 0
    /\ lastRanked = <<>>
    /\ lastTick = NoTick
    /\ controller = NoController
    /\ REBUILD_WALKER = TRUE
    /\ m_rebuildWorld = FALSE

SelectFrame == UNCHANGED <<m_walkersInPopulation, m_nextReapedIndex, crashed,
                           sowPc, sowLog>>

\* NNWalker* mother = getRandomElite();
SelectMother ==
    /\ \E r \in RandRatio :
          lastOp' = [NoOp EXCEPT !.op = "mother",
                                 !.mother = getRandomElite(POPULATION_SIZE, r)]
    /\ SelectFrame
    /\ SowFrame

\* NNWalker* father = (SOW_ELITE_PARTNER < rand()/RAND_MAX)
\*                        ? getRandomElite() : getRandomNonElite();
SelectFather ==
    /\ \E rsel \in RandRatio, r \in RandRatio :
          lastOp' = [NoOp EXCEPT
                        !.op = IF IntGtFloat(rsel, SOW_ELITE_PARTNER)
                               THEN "fatherElite" ELSE "fatherNonElite",
                        !.father = getFather(POPULATION_SIZE, rsel, r)]
    /\ SelectFrame
    /\ SowFrame

NextSelect == SelectMother \/ SelectFather

SpecSelect == InitSelect /\ [][NextSelect]_vars

\* ---------------------------------- SpecWorld: steps and world rebuilds
\* update() in a build with and in a build without REBUILD_WALKER; without
\* it the end of a round asks for the world to be rebuilt, which
\* performModelUpdate does before a later step.
InitAnyBuild ==
    /\ InitBuild(1 .. MaxWorldPopulation, 1 .. MaxParallel, BOOLEAN)
    /\ controller = NoController

WorldUpdate == \E dt \in 0 .. MaxDt : Update(dt) /\ UNCHANGED lastTick

\* performModelUpdate(): if(m_rebuildWorld){ recreateWorld(); ... = false; }
performModelUpdate ==
    /\ ~crashed
    /\ m_rebuildWorld
    /\ m_walkersInPopulation' =
            recreateWorld(m_walkersInPopulation, POPULATION_SIZE)
    /\ m_rebuildWorld' = FALSE
    /\ UNCHANGED <<POPULATION_SIZE, gParallelEvaluations, m_walkersInEvaluation,
                   m_nextReapedIndex, crashed, sowPc, lastOp, sowLog, cycleRan,
                   activations, atCycle, m_bestWalkerFitness, lastBest,
                   lastRanked, lastTick, controller, REBUILD_WALKER>>

NextWorld == WorldUpdate \/ performModelUpdate

SpecWorld == InitAnyBuild /\ [][NextWorld]_vars

\* ------------------------------------------- SpecRank: the ranking alone
\* rateEvaluations() at the end of a round: no walker is in evaluation, each
\* sits in the slot of its index with its evaluation time run out, and the
\* fitness values are whatever the walkers reached.  lastRanked records, for
\* every rank, the slot the walker came from and its fitness.
InitRank ==
    /\ POPULATION_SIZE \in 1 .. MaxRankPopulation
    /\ gParallelEvaluations = 1
    /\ m_walkersInPopulation =
            [i \in Slots(POPULATION_SIZE) |->
                [NNWalker(i, RankedWeights(i)) EXCEPT
                    !.m_evaluationTime = EVALUATION_DURATION]]
    /\ m_walkersInEvaluation = 0
    /\ m_nextReapedIndex = 0
    /\ crashed = FALSE
    /\ sowPc = <<"rank", 0>>
    /\ lastOp = NoOp
    /\ sowLog = NoLog
    /\ cycleRan = FALSE
    /\ activations = [i \in Slots(POPULATION_SIZE) |-> 1]
    /\ atCycle = NoCycle
    /\ m_bestWalkerFitness = 0
    /\ lastBest = 0
    /\ lastRanked = <<>>
    /\ lastTick = NoTick
    /\ controller = NoController
    /\ REBUILD_WALKER = TRUE
    /\ m_rebuildWorld = FALSE

RankStep ==
    /\ sowPc[1] = "rank"
    /\ \E fit \in [Slots(POPULATION_SIZE) -> FitnessVals] :
       \E perm \in RankOrdersOf(POPULATION_SIZE, fit) :
          /\ m_walkersInPopulation' =
                rateEvaluations(m_walkersInPopulation, POPULATION_SIZE, perm)
          /\ lastRanked' = [i \in Slots(POPULATION_SIZE) |->
                                [from |-> perm[i + 1], fitness |-> fit[perm[i + 1]]]]
          /\ lastBest' = fit[perm[1]]
          /\ m_bestWalkerFitness' =
                rateBest(POPULATION_SIZE, fit[perm[1]], m_bestWalkerFitness)
    /\ sowPc' = <<"reap", 0>>
    /\ cycleRan' = TRUE
    /\ UNCHANGED <<POPULATION_SIZE, gParallelEvaluations, m_walkersInEvaluation,
                   m_nextReapedIndex, crashed, lastOp, sowLog, activations,
                   atCycle, lastTick, controller, REBUILD_WALKER,
                   m_rebuildWorld>>

NextRank == RankStep

SpecRank == InitRank /\ [][NextRank]_vars

\* ------------------------------------- SpecController: one walker's controller
\* The body parts and joints of a walker, and the sensory-motor weights of the
\* walker as the flat array m_sensoryMotorWeights.
BODYPART_COUNT == 2 * NUM_WALKER_LEGS + 1
JOINT_COUNT == BODYPART_COUNT - 1
BodyParts == 0 .. BODYPART_COUNT - 1
Joints == 0 .. JOINT_COUNT - 1
\* Sample values of a weight, which lies in [-1, 1].
ControllerWeights == {-1, 0, 1}

\* The inner loop of the leg update from j on: targetAngle +=
\* getSensoryMotorWeights()[i+j*BODYPART_COUNT] * getTouchSensor(i).
RECURSIVE targetAngleFrom(_, _, _, _)
targetAngleFrom(weights, sensors, i, j) ==
    IF j >= JOINT_COUNT THEN 0
    ELSE weights[i + j * BODYPART_COUNT] * (IF sensors[i] THEN 1 ELSE 0)
            + targetAngleFrom(weights, sensors, i, j + 1)

\* targetAngle of joint i before the activation function is applied.
targetAngle(weights, sensors, i) == targetAngleFrom(weights, sensors, i, 0)

\* A walker in evaluation with any weights, its touch sensors clear.
InitController ==
    /\ InitWorld({1}, {1})
    /\ \E w \in [0 .. BODYPART_COUNT * JOINT_COUNT - 1 -> ControllerWeights] :
          controller = [op |-> "none", weights |-> w,
                        sensors |-> [b \in BodyParts |-> FALSE],
                        seen |-> [b \in BodyParts |-> FALSE],
                        raw |-> [i \in Joints |-> 0]]

ControllerFrame == UNCHANGED <<POPULATION_SIZE, gParallelEvaluations,
                               m_walkersInPopulation, m_walkersInEvaluation,
                               m_nextReapedIndex, crashed, sowPc, lastOp,
                               sowLog, cycleRan, activations, atCycle,
                               m_bestWalkerFitness, lastBest, lastRanked,
                               lastTick, REBUILD_WALKER, m_rebuildWorld>>

\* setTouchSensor for body part b.
ControllerTouch ==
    /\ \E b \in BodyParts :
          controller' = [controller EXCEPT !.op = "touch", !.sensors[b] = TRUE]
    /\ ControllerFrame

\* The leg update of updateEvaluations for the walker: the target of every
\* joint from the weights and the touch sensors, then clearTouchSensors().
ControllerUpdate ==
    /\ controller' =
          [controller EXCEPT
              !.op = "update",
              !.seen = controller.sensors,
              !.raw = [i \in Joints |->
                          targetAngle(controller.weights, controller.sensors, i)],
              !.sensors = [b \in BodyParts |-> FALSE]]
    /\ ControllerFrame

NextController == ControllerTouch \/ ControllerUpdate

SpecController == InitController /\ [][NextController]_vars

\* ============================================================ properties
InEvaluation ==
    {i \in Slots(POPULATION_SIZE) : m_walkersInPopulation[i].m_inEvaluation}
Started == {i \in Slots(POPULATION_SIZE) : activations[i] >= 1}
Unstarted ==
    {i \in Slots(POPULATION_SIZE) :
        /\ ~m_walkersInPopulation[i].m_inEvaluation
        /\ m_walkersInPopulation[i].m_evaluationTime = 0}

\* C1: with parallelEvaluations P >= 1 fixed, in every reachable state the
\* number of walkers in evaluation is at most P.
C1_AtMostParallel == Cardinality(InEvaluation) <= gParallelEvaluations

\* A later round with P walkers in evaluation and more waiting to start.
C1_Witness ==
    /\ atCycle.ran
    /\ Cardinality(InEvaluation) = gParallelEvaluations
    /\ Unstarted # {}

\* C2: rank+reap+sow runs exactly in the steps that bring the in-flight count
\* from positive to zero, once, however many walkers are torn down in the
\* step, and only after every slot was evaluated since the last time.
C2_CycleOncePerRound ==
    [][ /\ cycleRan' <=> (m_walkersInEvaluation > 0 /\ m_walkersInEvaluation' = 0)
        /\ cycleRan' =>
             \A i \in Slots(POPULATION_SIZE) :
                activations[i] = 1 /\ activations'[i] = 0 ]_vars

\* A cycle triggered by a step that tore down several walkers at once.
C2_Witness == cycleRan /\ atCycle.inFlightBefore >= 2

\* C3: when rank+reap+sow is triggered every slot was activated exactly once
\* since the last cycle and has run its full evaluation time.
C3_RoundComplete ==
    atCycle.ran =>
        \A i \in Slots(POPULATION_SIZE) :
            /\ atCycle.activations[i] = 1
            /\ atCycle.evaluationTime[i] >= EVALUATION_DURATION

\* A cycle after a round of more than one wave.
C3_Witness ==
    /\ atCycle.ran
    /\ POPULATION_SIZE > gParallelEvaluations
    /\ POPULATION_SIZE >= 3

\* C4: from a state in which no slot is started, one scheduler call puts
\* exactly the slots 0..min(P,N)-1 in evaluation, and the started slots are
\* always a prefix 0..k-1 of the population.
C4_AscendingActivation ==
    [][ /\ (Started = {}) =>
              InEvaluation' =
                0 .. Min(gParallelEvaluations, POPULATION_SIZE) - 1
        /\ \E k \in 0 .. POPULATION_SIZE : Started' = 0 .. k - 1 ]_vars

\* A later round with some slots started and some not yet.
C4_Witness ==
    /\ atCycle.ran
    /\ Started # {}
    /\ Started # Slots(POPULATION_SIZE)

\* C6: the population holds exactly POPULATION_SIZE slots and every slot
\* holds a walker.
C6_SlotsOccupied ==
    /\ DOMAIN m_walkersInPopulation = Slots(POPULATION_SIZE)
    /\ Cardinality(DOMAIN m_walkersInPopulation) = POPULATION_SIZE
    /\ \A i \in Slots(POPULATION_SIZE) : m_walkersInPopulation[i] # NULL

\* After a sow and the rebuild of a walker on its activation.
C6_Witness == atCycle.ran /\ InEvaluation # {} /\ ~cycleRan

\* floor(eliteFraction * N) and the floor and ceiling of (N-1) * reapFraction,
\* with the fractions 0.2 = 2/10 and 0.3 = 3/10 taken exactly.
EliteCount(N) == (2 * N) \div 10
ReapFloor(N) == (3 * (N - 1)) \div 10
ReapCeil(N) == -((-(3 * (N - 1))) \div 10)
SlotWeights(i) == m_walkersInPopulation[i].m_sensoryMotorWeights

\* C5: for every N, through the whole of sow() the weights of the ranked
\* slots below floor(eliteFraction*N) are the ones they had before it.
C5_EliteUntouched ==
    sowPc[1] # "reap" =>
        \A i \in Slots(POPULATION_SIZE) :
            i < EliteCount(POPULATION_SIZE) =>
                SlotWeights(i) = sowLog.ranked[i]

\* sow() has completed all three loops over a population with several elites.
C5_Witness ==
    /\ sowPc[1] = "done"
    /\ EliteCount(POPULATION_SIZE) >= 2
    /\ sowLog.crossed # <<>>
    /\ sowLog.mutated # {}
    /\ sowLog.randomized # <<>>

\* C7: after crossover(mother, father, child) every weight of the child is
\* the mother's or the father's weight at that position as read by the call.
C7_CrossoverPicksParent ==
    (lastOp.op = "crossover" /\ lastOp.slot # NoSlot) =>
        \A k \in WeightIdx :
            SlotWeights(lastOp.slot)[k] \in {lastOp.motherW[k], lastOp.fatherW[k]}

\* A crossover whose father is the child itself and whose coin chose the
\* father.
C7_Witness ==
    /\ lastOp.op = "crossover"
    /\ lastOp.slot # NoSlot
    /\ lastOp.father = lastOp.slot
    /\ lastOp.mother # lastOp.slot
    /\ \E k \in WeightIdx : ~lastOp.draw[k]

\* C8: mutate replaces a weight only when its draw falls below the rate, and
\* changes no weight of the mutant whose rate is 0.
C8_MutationBelowRate ==
    lastOp.op = "mutate" =>
        /\ \A k \in WeightIdx :
              SlotWeights(lastOp.slot)[k] # lastOp.before[k] => ~lastOp.draw[k]
        /\ lastOp.rateSign = 0 => SlotWeights(lastOp.slot) = lastOp.before

\* C9 as stated: reap() marks floor((N-1)*reapFraction) or
\* ceil((N-1)*reapFraction) walkers, the highest-index slots.
C9_ReapCountFloorOrCeil ==
    sowPc[1] # "reap" =>
        LET c == Cardinality(sowLog.reaped)
        IN  /\ c \in {ReapFloor(POPULATION_SIZE), ReapCeil(POPULATION_SIZE)}
            /\ sowLog.reaped = (POPULATION_SIZE - c) .. (POPULATION_SIZE - 1)

\* C9: reap() marks floor((N-1)*reapFraction) + 1 walkers, and they are
\* exactly the highest-index slots.
C9_ReapCount ==
    sowPc[1] # "reap" =>
        LET c == Cardinality(sowLog.reaped)
        IN  /\ c = ReapFloor(POPULATION_SIZE) + 1
            /\ sowLog.reaped = (POPULATION_SIZE - c) .. (POPULATION_SIZE - 1)

\* reap() has run on a population for which (N-1)*reapFraction is a positive
\* integer.
C9_Witness ==
    /\ lastOp.op = "reap"
    /\ POPULATION_SIZE > 1
    /\ ReapFloor(POPULATION_SIZE) = ReapCeil(POPULATION_SIZE)

\* C10: every slot is in exactly one band of sow(): untouched elite, mutated,
\* or reaped; no slot is both mutated and reaped.
C10_BandsPartition ==
    sowPc[1] = "done" =>
        /\ sowLog.mutated \cap sowLog.reaped = {}
        /\ \A i \in Slots(POPULATION_SIZE) :
              \/ i \in sowLog.mutated
              \/ i \in sowLog.reaped
              \/ i < EliteCount(POPULATION_SIZE)
        /\ \A i \in sowLog.mutated \cup sowLog.reaped :
              i >= EliteCount(POPULATION_SIZE)

\* ---- C11
FirstWave == Slots(Min(gParallelEvaluations, POPULATION_SIZE))
SecondWave ==
    {i \in Slots(POPULATION_SIZE) :
        /\ i >= gParallelEvaluations
        /\ i < 2 * gParallelEvaluations}
Walker(i) == m_walkersInPopulation[i]

TimeAfterStep(i) ==
    IF cycleRan' THEN atCycle'.evaluationTime[i]
    ELSE Walker(i)'.m_evaluationTime

\* C12: in every update(dt) the evaluation time of every walker in evaluation
\* advances by exactly min(dt, 1/60 s) and so does its leg-update accumulator
\* (which starts again from 0 when it has reached the update period); the
\* walkers not in evaluation do not advance.
C12_ClampedAdvance ==
    [][ lastTick'.op = "update" =>
          LET delta == Min(lastTick'.dt, minFPS)
          IN  \A i \in Slots(POPULATION_SIZE) :
                IF Walker(i).m_inEvaluation
                THEN /\ TimeAfterStep(i) = Walker(i).m_evaluationTime + delta
                     /\ ~cycleRan' =>
                          Walker(i)'.m_legUpdateAccumulator =
                            IF Walker(i).m_legUpdateAccumulator + delta
                                  >= LegUpdatePeriod
                            THEN 0
                            ELSE Walker(i).m_legUpdateAccumulator + delta
                ELSE /\ TimeAfterStep(i) = Walker(i).m_evaluationTime
                     /\ ~cycleRan' =>
                          Walker(i)'.m_legUpdateAccumulator
                            \in {Walker(i).m_legUpdateAccumulator, 0} ]_vars

\* A step longer than the clamp has just advanced a walker in evaluation
\* while another walker waits.
C12_Witness ==
    /\ lastTick.op = "update"
    /\ lastTick.dt > minFPS
    /\ \E i, j \in Slots(POPULATION_SIZE) :
          /\ Walker(i).m_inEvaluation
          /\ Walker(i).m_evaluationTime >= 2 * minFPS
          /\ Walker(i).m_legUpdateAccumulator > 0
          /\ ~Walker(j).m_inEvaluation

\* C13: a contact callback leaves the touch sensors of every walker that is
\* not in evaluation as they were.
C13_IdleTouchNoOp ==
    lastTick.op = "contact" =>
        \A i \in Slots(POPULATION_SIZE) :
            ~Walker(i).m_inEvaluation =>
                Walker(i).m_touchSensors = lastTick.touched[i]

\* ---- C14
\* C14: under a configuration with parallelEvaluations <= 0 the scheduler
\* never runs a step: rank+reap+sow is never triggered and the cursor, the
\* reaped marks and the recorded best fitness stay as initPhysics left them.
C14_MalformedRejected ==
    gParallelEvaluations <= 0 =>
        /\ ~cycleRan
        /\ ~atCycle.ran
        /\ m_nextReapedIndex = 0
        /\ ReapedSlots(m_walkersInPopulation) = {}

\* ---- C15
\* Not all walkers are marked by reap(): the count of C9 is below N.
NotAllReaped == ReapFloor(POPULATION_SIZE) + 1 < POPULATION_SIZE

\* C15 as stated, its conclusion: the recorded best fitness never decreases.
C15_BestNeverDecreases ==
    [][ m_bestWalkerFitness' >= m_bestWalkerFitness ]_vars

\* C15: a round whose best fitness is below the recorded best, with not all
\* walkers reaped, leaves the recorded best unchanged (the warning case);
\* otherwise the recorded best becomes the round's best; reap and sow run in
\* both cases (sow has taken a reaped slot); the recorded best changes in no other step and never decreases
\* when the population has more than one walker.
C15_BestFitness ==
    [][ /\ cycleRan' =>
            /\ m_bestWalkerFitness' =
                  IF NotAllReaped /\ lastBest' < m_bestWalkerFitness
                  THEN m_bestWalkerFitness
                  ELSE lastBest'
            /\ m_nextReapedIndex' >= 1
        /\ ~cycleRan' => m_bestWalkerFitness' = m_bestWalkerFitness
        /\ POPULATION_SIZE > 1 =>
              m_bestWalkerFitness' >= m_bestWalkerFitness ]_vars

\* The warning case: the round's best is below the recorded best, which is
\* kept, and sow has run.
C15_Witness ==
    /\ cycleRan
    /\ NotAllReaped
    /\ lastBest < m_bestWalkerFitness
    /\ m_nextReapedIndex >= 1

\* ---- C16
\* C16 as stated: in every state the walker in slot i reports index i.
C16_IndexIsSlot ==
    \A i \in Slots(POPULATION_SIZE) : Walker(i).m_index = i

\* C16: a walker reports the index of its slot from its activation (which
\* rebuilds it) until the next ranking, in particular whenever it is in
\* evaluation.
C16_IndexOfStarted ==
    \A i \in Slots(POPULATION_SIZE) :
        (Walker(i).m_inEvaluation \/ activations[i] >= 1) =>
            Walker(i).m_index = i

\* After a ranking: a rebuilt walker in evaluation next to a walker that
\* still reports the slot it was ranked out of.
C16_Witness ==
    /\ atCycle.ran
    /\ \E i, j \in Slots(POPULATION_SIZE) :
          /\ Walker(i).m_inEvaluation
          /\ Walker(i).m_index = i
          /\ Walker(j).m_index # j

\* ---- C17
\* C17: an update() that does not end a round (ticks, controller updates,
\* tear-downs, set-ups with their rebuild) leaves the weights of every slot
\* as they were; the ranking of an update() that ends a round only permutes
\* the walkers, each with its own weights.
C17_WeightsOnlyInSow ==
    [][ /\ ~cycleRan' =>
              Weights(m_walkersInPopulation') = Weights(m_walkersInPopulation)
        /\ cycleRan' =>
              /\ {lastRanked'[i].index : i \in Slots(POPULATION_SIZE)}
                    = Slots(POPULATION_SIZE)
              /\ \A i \in Slots(POPULATION_SIZE) :
                    lastRanked'[i].weights =
                        Walker(lastRanked'[i].index).m_sensoryMotorWeights ]_vars

\* A walker rebuilt in its slot after a ranking that moved walkers with
\* different weights.
C17_Witness ==
    /\ atCycle.ran
    /\ ~cycleRan
    /\ \E i, j \in Slots(POPULATION_SIZE) :
          /\ Walker(i).m_inEvaluation
          /\ Walker(j).m_index # j
          /\ Walker(i).m_sensoryMotorWeights # Walker(j).m_sensoryMotorWeights

\* ---- C18
\* The product POPULATION_SIZE * SOW_CROSSOVER_QTY as sow() computes it, cut to
\* an integer, and the least integer not below it.
CrossoverFloor == FloatToInt(IntTimesFloat(POPULATION_SIZE, SOW_CROSSOVER_QTY))
CrossoverCeil ==
    IF IntLtFloat(CrossoverFloor,
                  IntTimesFloat(POPULATION_SIZE, SOW_CROSSOVER_QTY))
    THEN CrossoverFloor + 1 ELSE CrossoverFloor

CrossoverLoopOver == sowPc[1] \in {"mutate", "random", "done"}

\* C18 as stated: once the crossover loop of sow() is over, it has made
\* floor(N * crossoverFraction) children.
C18_CrossoverCountFloor ==
    CrossoverLoopOver => Len(sowLog.crossed) = CrossoverFloor

\* C18: once the crossover loop of sow() is over, it has made as many
\* children as the least integer not below N * crossoverFraction (the product
\* in single precision), each written into a slot of the population.
C18_CrossoverCountCeil ==
    CrossoverLoopOver =>
        /\ Len(sowLog.crossed) = CrossoverCeil
        /\ \A k \in 1 .. Len(sowLog.crossed) :
                sowLog.crossed[k] \in Slots(POPULATION_SIZE)

\* A sow() past its crossover loop where the two counts differ, and one where
\* they agree.
C18_Witness ==
    /\ CrossoverLoopOver
    /\ Len(sowLog.crossed) = CrossoverCeil
    /\ CrossoverCeil = CrossoverFloor + 1
    /\ CrossoverCeil >= 2

\* ---- C19
SeqRange(q) == {q[k] : k \in 1 .. Len(q)}
NoRepeat(q) == \A j, k \in 1 .. Len(q) : j # k => q[j] # q[k]

\* C19 as stated: the crossover children go to the reaped slots worst-first
\* (N-1, N-2, ...), each slot at most once; the random fill of a finished
\* sow() has randomized exactly the reaped slots that received no crossover
\* child, each once, and cleared their mark, and no call of sow() ran into a
\* missing slot.
C19_RandomFillExact ==
    /\ ~crashed
    /\ \A k \in 1 .. Len(sowLog.crossed) :
            sowLog.crossed[k] = POPULATION_SIZE - k
    /\ NoRepeat(sowLog.randomized)
    /\ SeqRange(sowLog.randomized) \cap SeqRange(sowLog.crossed) = {}
    /\ sowPc[1] = "done" =>
          /\ SeqRange(sowLog.randomized) =
                sowLog.reaped \ SeqRange(sowLog.crossed)
          /\ \A i \in SeqRange(sowLog.randomized) :
                ~m_walkersInPopulation[i].m_reaped

\* ---- C20
\* The ranked slots in the top eliteFraction of the population.
EliteBand == 0 .. EliteCount(POPULATION_SIZE) - 1

\* C20 as stated: every mother drawn is a slot of the elite band, and every
\* slot of the elite band is the outcome of getRandomElite() for some value
\* of the random draw.
C20_MotherOverEliteBand ==
    /\ lastOp.op = "mother" => lastOp.mother \in EliteBand
    /\ \A k \in EliteBand :
          \E r \in RandRatio : getRandomElite(POPULATION_SIZE, r) = k

\* ---- C21
\* C21 as stated: for the population size the source is built with, a father
\* drawn by getRandomNonElite() is a ranked slot at or above N*eliteFraction,
\* never a slot of the elite band.
C21_FatherOutsideElite ==
    (POPULATION_SIZE = DefaultPopulation /\ lastOp.op = "fatherNonElite") =>
        /\ lastOp.father \in Slots(POPULATION_SIZE)
        /\ lastOp.father >= EliteCount(POPULATION_SIZE)
        /\ lastOp.father \notin EliteBand

\* ---- C22
\* The controller tick of walker i fires in an update() of step dt: the
\* leg-update accumulator reaches the update period.
ControllerTickFires(i, dt) ==
    Walker(i).m_legUpdateAccumulator + Min(dt, minFPS) >= LegUpdatePeriod

\* C22 as stated: a touch-sensor bit that is set stays set through every
\* update() in which the walker stays in evaluation and its controller tick
\* does not fire.
C22_TouchAccumulates ==
    [][ lastTick'.op = "update" =>
          \A i \in Slots(POPULATION_SIZE) :
             ( /\ Walker(i).m_inEvaluation
               /\ Walker(i)'.m_inEvaluation
               /\ Walker(i).m_touchSensors
               /\ ~ControllerTickFires(i, lastTick'.dt) )
             => Walker(i)'.m_touchSensors ]_vars

\* ---- C23
\* The world calls update() as the pre-tick callback of a simulation step and
\* reports the contacts of the step afterwards, while it steps: a contact
\* callback that follows an update() is a contact of that update()'s step.
ContactOfRunningStep == lastTick.op = "update" /\ lastTick'.op = "contact"

\* The controller tick of walker i fired in the update() that has just run:
\* the walker was in evaluation before it, time passed and the accumulator is
\* back at 0.
TickedInLastUpdate(i) ==
    /\ lastTick.op = "update"
    /\ lastTick.dt > 0
    /\ Walker(i).m_inEvaluation
    /\ Walker(i).m_evaluationTime > 0
    /\ Walker(i).m_legUpdateAccumulator = 0

\* C23 as stated: within a simulation step the contacts of the step are
\* applied to a walker's touch sensors before the walker's controller tick of
\* that step, so once the controller tick of the step has run no contact of
\* the step changes the walker's touch sensors.
C23_ContactsBeforeControllerTick ==
    [][ ContactOfRunningStep =>
          \A i \in Slots(POPULATION_SIZE) :
             TickedInLastUpdate(i) =>
                Walker(i)'.m_touchSensors = Walker(i).m_touchSensors ]_vars

\* ---- C24
\* The sum over all touch sensors s of W[s][j]*S[s] from sensor s on, W[s][j]
\* being the weight randomizeSensoryMotorWeights files under s+j*BODYPART_COUNT.
RECURSIVE SensorSumFrom(_, _, _, _)
SensorSumFrom(weights, sensors, j, s) ==
    IF s >= BODYPART_COUNT THEN 0
    ELSE weights[s + j * BODYPART_COUNT] * (IF sensors[s] THEN 1 ELSE 0)
            + SensorSumFrom(weights, sensors, j, s + 1)

\* C24 as stated: the raw activation a leg update computes for joint j is the
\* sum over all touch sensors s of W[s][j]*S[s] (0 for every joint when no
\* sensor is set).
C24_ControllerSum ==
    controller.op = "update" =>
        \A j \in Joints :
            controller.raw[j] =
                SensorSumFrom(controller.weights, controller.seen, j, 0)

\* ---- C25
\* C25: after every update() no walker in evaluation has an evaluation time
\* of EVALUATION_DURATION or more; a walker leaves evaluation only in the
\* update() that brought its evaluation time to EVALUATION_DURATION or more,
\* and from then on it stays out of evaluation with that evaluation time
\* until the update() that runs rateEvaluations.
C25_TimeoutSameStep ==
    [][ \A i \in Slots(POPULATION_SIZE) :
          /\ Walker(i)'.m_inEvaluation =>
                Walker(i)'.m_evaluationTime < EVALUATION_DURATION
          /\ (Walker(i).m_inEvaluation /\ (cycleRan' \/ ~Walker(i)'.m_inEvaluation))
                => /\ TimeAfterStep(i) >= EVALUATION_DURATION
                   /\ Walker(i).m_evaluationTime < EVALUATION_DURATION
          /\ (~Walker(i).m_inEvaluation
                /\ Walker(i).m_evaluationTime >= EVALUATION_DURATION)
                => /\ TimeAfterStep(i) = Walker(i).m_evaluationTime
                   /\ ~cycleRan' => ~Walker(i)'.m_inEvaluation ]_vars

\* A walker timed out and waits with its evaluation time kept while another
\* is still in evaluation.
C25_Witness ==
    /\ ~cycleRan
    /\ \E i, j \in Slots(POPULATION_SIZE) :
          /\ ~Walker(i).m_inEvaluation
          /\ Walker(i).m_evaluationTime >= EVALUATION_DURATION
          /\ Walker(j).m_inEvaluation
          /\ Walker(j).m_evaluationTime > 0

\* ---- C26
\* C26 as stated: after rateEvaluations no walker precedes a fitter one, and
\* of two walkers of equal fitness the one that held the lower slot before
\* the sort comes first.
C26_RankStableDescending ==
    (sowPc[1] = "reap" /\ lastRanked # <<>>) =>
        \A i, j \in Slots(POPULATION_SIZE) :
            i < j =>
                /\ lastRanked[i].fitness >= lastRanked[j].fitness
                /\ lastRanked[i].fitness = lastRanked[j].fitness
                      => lastRanked[i].from < lastRanked[j].from

\* ---- C27
\* C27: a walker is set up only when it is out of evaluation with evaluation
\* time 0, and after the update() that set it up it is in evaluation with
\* evaluation time 0, leg-update accumulator 0, its touch sensors clear and
\* not marked as reaped.
C27_ActivateResets ==
    [][ \A i \in Slots(POPULATION_SIZE) :
          (~Walker(i).m_inEvaluation /\ Walker(i)'.m_inEvaluation) =>
             /\ Walker(i).m_evaluationTime = 0
             /\ lastTick'.op = "update"
             /\ Walker(i)'.m_evaluationTime = 0
             /\ Walker(i)'.m_legUpdateAccumulator = 0
             /\ ~Walker(i)'.m_touchSensors
             /\ ~Walker(i)'.m_reaped ]_vars

\* A walker set up again in a later round, by the last update().
C27_Witness ==
    /\ atCycle.ran
    /\ lastTick.op = "update"
    /\ \E i \in Slots(POPULATION_SIZE) :
          /\ Walker(i).m_inEvaluation
          /\ Walker(i).m_evaluationTime = 0
          /\ activations[i] = 1

\* ---- C28
\* C28 as stated: for every population size, no call of getNextReaped() in
\* sow() returns the null pointer, so sow() never writes through it.
C28_NextReapedNeverNull ==
    /\ NoSlot \notin SeqRange(sowLog.crossed)
    /\ NoSlot \notin SeqRange(sowLog.randomized)
    /\ ~crashed

\* ---- C29
\* C29: after every update() the in-flight counter m_walkersInEvaluation is
\* the number of slots whose walker is in evaluation, and it is not negative.
C29_CounterConsistent ==
    /\ m_walkersInEvaluation = Cardinality(InEvaluation)
    /\ m_walkersInEvaluation >= 0

\* In a later round, after tear-downs and set-ups, walkers are in evaluation
\* while one has finished and one waits.
C29_Witness ==
    /\ atCycle.ran
    /\ m_walkersInEvaluation >= 1
    /\ \E i, j \in Slots(POPULATION_SIZE) :
          /\ ~Walker(i).m_inEvaluation
          /\ Walker(i).m_evaluationTime >= EVALUATION_DURATION
          /\ Walker(j).m_inEvaluation
          /\ Walker(j).m_evaluationTime > 0

\* ---- C30
\* C30: after every update() and after every rebuild of the world, a walker's
\* bodies and constraints are in the dynamics world exactly if the walker is
\* in evaluation; and when rateEvaluations, reap and sow ran, no walker was
\* in the world or in evaluation.
C30_RegisteredIffEvaluating ==
    /\ \A i \in Slots(POPULATION_SIZE) :
          Walker(i).m_inWorld <=> Walker(i).m_inEvaluation
    /\ atCycle.ran => atCycle.registered = 0

\* The world was rebuilt after a round while a walker of the next round was
\* in evaluation and another was not.
C30_Witness ==
    /\ ~REBUILD_WALKER
    /\ atCycle.ran
    /\ ~m_rebuildWorld
    /\ \E i, j \in Slots(POPULATION_SIZE) :
          /\ Walker(i).m_inEvaluation
          /\ Walker(i).m_inWorld
          /\ ~Walker(j).m_inEvaluation

\* ---- C31
\* The simulation step of the dynamics world that calls update() as its
\* pre-tick callback: it is made while the process lives, and lastTick keeps
\* the parity of the steps made.
WorldStep ==
    /\ ~crashed
    /\ sowPc[1] = "idle"
    /\ lastTick' = [lastTick EXCEPT !.op = IF @ = "odd" THEN "even" ELSE "odd"]

\* Steps delivered for ever with one positive timeSinceLastTick. The
\* constructors draw one sample of the weights.
InitLive ==
    /\ POPULATION_SIZE \in (1 .. MaxPopulation) \cup {LivePopulation}
    /\ REBUILD_WALKER = TRUE
    /\ m_rebuildWorld = FALSE
    /\ gParallelEvaluations \in 1 .. MaxParallel
    /\ \E f \in FreshDraws :
            m_walkersInPopulation =
                initPhysics(POPULATION_SIZE,
                            [i \in Slots(POPULATION_SIZE) |-> f])
    /\ m_walkersInEvaluation = 0
    /\ m_nextReapedIndex = 0
    /\ crashed = FALSE
    /\ sowPc = <<"idle", 0>>
    /\ lastOp = NoOp
    /\ sowLog = NoLog
    /\ cycleRan = FALSE
    /\ activations = [i \in Slots(POPULATION_SIZE) |-> 0]
    /\ atCycle = NoCycle
    /\ m_bestWalkerFitness = 0
    /\ lastBest = 0
    /\ lastRanked = <<>>
    /\ \E dt \in 1 .. MaxDt : lastTick = [op |-> "even", dt |-> dt,
                                           touched |-> <<>>]
    /\ controller = NoController

NextLive == Update(lastTick.dt) /\ WorldStep

\* The world goes on stepping: a step that can be made is made.
SpecLive == InitLive /\ [][NextLive]_vars /\ WF_lastTick(WorldStep)

\* C31: with parallelEvaluations >= 1 and update() called for ever with one
\* positive timeSinceLastTick, every walker in evaluation is eventually out
\* of evaluation, every walker not yet started is eventually in evaluation,
\* and rateEvaluations, reap and sow run again and again.
C31_Progress ==
    /\ \A i \in 0 .. LivePopulation - 1 :
          /\ (i \in InEvaluation) ~> (i \notin InEvaluation)
          /\ (i \in Unstarted) ~> (i \in InEvaluation)
    /\ []<>cycleRan
    /\ []<>(~cycleRan)

====
